---- MODULE Spec2Model ----
(***************************************************************************)
(* BaseForecastEstimator (greykite/sklearn/estimator/base_forecast_        *)
(* estimator.py): the fit / predict / score / summary lifecycle of one     *)
(* estimator instance, with its one-entry prediction cache and its null    *)
(* model.  One action per call on the estimator; a call of a concrete      *)
(* subclass is the base preamble followed by the subclass step, the way    *)
(* the docstrings of fit and predict require.                              *)
(*                                                                         *)
(* Python objects that are shared by reference live in two heaps: `frames` *)
(* (pandas frames, by object id) and `dicts` (the null_model_params        *)
(* mappings, by object id).  An optional value is a set: None is {} and a  *)
(* value v is {v}.  A mapping is a set of <<key, value>> pairs.            *)
(***************************************************************************)
EXTENDS Integers, Sequences, FiniteSets, TLC

\* ---------------------------------------------------------------- bounds
\* Longest frame, in rows.
MaxRows == 2
\* Number of fit calls explored on one estimator.
MaxFits == 2

\* ------------------------------------------------------- values and inputs
None == {}
Some(v) == {v}
The(s) == CHOOSE v \in s : TRUE

\* A frame's values: a column of cells (shape = length).  The frames used:
\* two one-row frames that differ in their cell, and one frame of every
\* other length up to MaxRows.
FrameValues == {<<0>>, <<1>>} \cup {[i \in 1..n |-> 0] : n \in 2..MaxRows}
\* Frame objects the caller owns: fA, which it also modifies in place, and
\* fB, which it passes but never modifies.
FrameIds == {"fA", "fB"}
MutableFrameIds == {"fA"}
\* The mapping object the caller passes as null_model_params.
DictIds == {"d1"}
\* Actual values handed to score: same length as the frame.
YCells == {0, 2}
YValues(n) == {[i \in 1..n |-> c] : c \in YCells}

ScoreFuncs == {"sum_abs_error", "sum_squared_error"}
Coverages == {"0.95"}
TimeCols == {"ts"}
ValueCols == {"y"}

\* Keys the null model's constructor takes besides score_func.
NullModelKeys == {"strategy", "constant", "quantile"}
\* The contents a caller's null_model_params mapping starts with.
ParamChoices ==
    { {<<"strategy", "mean">>},
      {<<"strategy", "mean">>, <<"score_func", "sum_abs_error">>},
      {<<"bogus", "1">>} }
\* The keyword arguments a caller passes to fit.
FitParamChoices ==
    { {},
      {<<"sample_weight", "w1">>},
      {<<"sample_weight", "w1">>, <<"verbose", "1">>} }

Keys(m) == {p[1] : p \in m}
\* dict.get(k): None when the key is absent.
Get(m, k) == {p[2] : p \in {q \in m : q[1] = k}}
\* m[k] = v, on the mapping's contents.
Put(m, k, v) == {p \in m : p[1] # k} \cup {<<k, v>>}

VARIABLES
    score_func,           \* configuration
    coverage,
    null_model_params,    \* None or Some(id of a mapping in dicts)
    null_model,           \* fitted state
    time_col_,
    value_col_,
    last_predicted_X_,    \* cache: None or Some(id of a frame in frames)
    cached_predictions_,  \* cache: None or Some(prediction result)
    model_,               \* the subclass's own fitted model
    n_fits,               \* fit calls that completed
    frames,               \* frame object -> its values now
    dicts,                \* mapping object -> its contents now
    lastCall,             \* the most recent event and what it returned
    loaded                \* DataLoader: the most recent load_data call

vars == <<score_func, coverage, null_model_params, null_model, time_col_,
          value_col_, last_predicted_X_, cached_predictions_, model_,
          n_fits, frames, dicts, lastCall, loaded>>

\* ------------------------------------------------ collaborators (by contract)
Abs(n) == IF n < 0 THEN -n ELSE n

\* A caller-supplied score_func(actual, predicted): a loss, smaller is better.
RECURSIVE SumLoss(_, _, _, _)
SumLoss(f, y, p, i) ==
    IF i = 0 THEN 0
    ELSE SumLoss(f, y, p, i - 1)
         + (IF f = "sum_abs_error" THEN Abs(y[i] - p[i])
            ELSE (y[i] - p[i]) * (y[i] - p[i]))
ScoreFunc(f, y, p) == SumLoss(f, y, p, Len(y))

\* A score is a record: a plain loss (num, den = 1), a relative skill as the
\* fraction num/den, or no score at all.
PlainScore(v) == [kind |-> "loss", num |-> v, den |-> 1]
NoScore == [kind |-> "none", num |-> 0, den |-> 0]
\* The division of a loss by a zero loss: raises instead of returning.
DivisionError == [kind |-> "ZeroDivisionError", num |-> 0, den |-> 0]
\* 1 - model/null, kept as the fraction (null - model)/null.
OneMinusRatio(model_loss, null_loss) ==
    [kind |-> "r2", num |-> null_loss - model_loss, den |-> null_loss]

\* greykite.common.evaluation.r2_null_model_score(y, y_pred, y_pred_null,
\* loss_func): one minus the ratio of the model's loss to the null model's;
\* no score when the null model's loss is zero.
r2_null_model_score(y, y_pred, y_pred_null, loss_func) ==
    LET model_loss == ScoreFunc(loss_func, y, y_pred)
        null_loss  == ScoreFunc(loss_func, y, y_pred_null)
    IN  IF null_loss = 0 THEN NoScore
        ELSE OneMinusRatio(model_loss, null_loss)

\* DummyEstimator(**params): takes strategy, constant, quantile, score_func;
\* any other key is a ConfigurationError.
DummyEstimatorAccepts(params) == Keys(params) \subseteq NullModelKeys \cup {"score_func"}
DummyEstimatorNew(params) ==
    [params |-> params, X |-> None, time_col |-> None, value_col |-> None,
     fit_kwargs |-> {}]
\* DummyEstimator.fit(X, y, time_col, value_col, **kwargs): the null model
\* keeps what it was fit on and the other keyword arguments it was passed.
DummyEstimatorFit(nm, xval, time_col, value_col, kwargs) ==
    [nm EXCEPT !.X = Some(xval), !.time_col = Some(time_col),
               !.value_col = Some(value_col), !.fit_kwargs = kwargs]
\* DummyEstimator.predict(X)[PREDICTED_COL]: one constant for every row.
DummyEstimatorPredict(nm, xval) ==
    LET c == IF <<"strategy", "constant">> \in nm.params THEN 1
             ELSE IF nm.X = None THEN 0 ELSE The(nm.X)[1]
    IN  [i \in 1..Len(xval) |-> c]

\* The concrete subclass's computation of fresh predictions for the values
\* xval, from its fitted model; the result records the values it was
\* computed for and the number of fits completed when it was computed.
SubclassCompute(xval) ==
    LET bias == IF model_ = None THEN 0 ELSE The(model_)[1]
    IN  [x |-> xval, epoch |-> n_fits,
         predicted |-> [i \in 1..Len(xval) |-> (xval[i] + bias) % 2]]
\* The concrete subclass's own fitting step.
SubclassFitModel(xval) == Some(xval)

\* ------------------------------------------------------------- DataLoader
\* The names get_data_inventory() returns.
DataInventory ==
    {"online_retail", "minute_energy_appliance", "minute_household_power",
     "minute_yosemite_temps", "hourly_parking", "hourly_traffic_volume",
     "hourly_bikesharing", "hourly_beijing_pm", "daily_temperature_australia",
     "daily_demand_order", "daily_female_births", "daily_istanbul_stock",
     "daily_peyton_manning", "monthly_shampoo", "monthly_sunspot"}
\* The names a caller passes as data_name: the inventory and one other name.
DataNames == DataInventory \cup {"dummy"}
\* The extra keyword arguments a caller passes (at most one).
LoaderKwargChoices ==
    {{}} \cup {{<<"system_code_number", v>>} : v \in {"Shopping", "NIA South"}}
         \cup {{<<"agg_freq", v>>} : v \in {"daily", "weekly", "monthly"}}
\* The datasets that have a loader of their own, and that loader.
DedicatedLoader(data_name) ==
    CASE data_name = "daily_peyton_manning" -> Some("load_peyton_manning")
      [] data_name = "hourly_parking"       -> Some("load_parking")
      [] data_name = "hourly_bikesharing"   -> Some("load_bikesharing")
      [] data_name = "hourly_beijing_pm"    -> Some("load_beijing_pm")
      [] OTHER                              -> None
\* The keyword arguments each dedicated loader takes.
LoaderTakes(loader) ==
    CASE loader = "load_peyton_manning" -> {}
      [] loader = "load_parking"        -> {"system_code_number"}
      [] loader = "load_bikesharing"    -> {"agg_freq", "agg_func"}
      [] loader = "load_beijing_pm"     -> {"agg_freq", "agg_func"}
\* The dataset file each dedicated loader reads.
LoaderFile(loader) ==
    CASE loader = "load_peyton_manning" -> "daily_peyton_manning"
      [] loader = "load_parking"        -> "hourly_parking"
      [] loader = "load_bikesharing"    -> "hourly_bikesharing"
      [] loader = "load_beijing_pm"     -> "hourly_beijing_pm"
\* A call of a dedicated loader: the frame is the dataset's file, filtered or
\* aggregated as the arguments say; an argument the loader does not take is
\* a TypeError.
CallLoader(loader, kwargs) ==
    IF Keys(kwargs) \subseteq LoaderTakes(loader)
    THEN [outcome |-> "ok",
          frame |-> Some([file |-> LoaderFile(loader), args |-> kwargs])]
    ELSE [outcome |-> "TypeError", frame |-> None]
\* What a load_data of an inventory name without a loader of its own may do.
GenericLoadOutcomes(data_name, kwargs) ==
    {[outcome |-> "ValueError", frame |-> None],
     [outcome |-> "ok", frame |-> Some([file |-> data_name, args |-> kwargs])]}
\* Variant of load_data: the dedicated loader is called without the extra
\* arguments.
load_data_drops_kwargs(data_name, kwargs) ==
    IF data_name \notin DataInventory
    THEN {[outcome |-> "ValueError", frame |-> None]}
    ELSE IF DedicatedLoader(data_name) # None
    THEN {CallLoader(The(DedicatedLoader(data_name)), {})}
    ELSE GenericLoadOutcomes(data_name, kwargs)
\* DataLoader.load_data(data_name, **kwargs): the outcomes the call can have.
load_data(data_name, kwargs) ==
    IF data_name \notin DataInventory
    THEN {[outcome |-> "ValueError", frame |-> None]}
    ELSE IF DedicatedLoader(data_name) # None
    THEN {CallLoader(The(DedicatedLoader(data_name)), kwargs)}
    ELSE GenericLoadOutcomes(data_name, kwargs)
NotLoaded == [data_name |-> None, kwargs |-> {}, outcome |-> "ok", frame |-> None]

\* ------------------------------------------------------------ the history
Call(op) ==
    [op |-> op, x |-> None, y |-> None,
     preamble_ok |-> FALSE, outcome |-> "ok", sub_ran |-> FALSE, hit |-> FALSE,
     repeat |-> FALSE, switch |-> FALSE, shape_miss |-> FALSE,
     fit_params |-> {},
     pre_cached |-> op = "fit" /\ cached_predictions_ # None,
     ret_pred |-> None, ret_score |-> NoScore]

\* ---------------------------------------------------------------- __init__
Init ==
    /\ score_func \in ScoreFuncs
    /\ coverage \in Coverages
    /\ null_model_params \in {None, Some("d1")}
    /\ null_model = None
    /\ time_col_ = None
    /\ value_col_ = None
    /\ last_predicted_X_ = None
    /\ cached_predictions_ = None
    /\ model_ = None
    /\ n_fits = 0
    /\ frames = [f \in FrameIds |-> <<0>>]
    /\ dicts \in [DictIds -> ParamChoices]
    /\ lastCall = Call("init")
    /\ loaded = NotLoaded

\* --------------------------------------------------------------------- fit
FitTimeCol(time_col) == Some(time_col)
FitValueCol(value_col) == Some(value_col)
\* Variant of the injection: the mapping is replaced by one that holds only
\* score_func (an assignment in place of an item assignment).
FitNullModelParamsReplaced(m) == {<<"score_func", score_func>>}
\* self.null_model_params["score_func"] = self.score_func
FitNullModelParams(m) == Put(m, "score_func", score_func)
\* fit_params.get("sample_weight")
FitSampleWeight(fit_params) == Get(fit_params, "sample_weight")
\* Variant of the forwarding: the null model's fit is passed **fit_params.
FitNullModelKwargsAll(fit_params) == {<<p[1], Some(p[2])>> : p \in fit_params}
\* The keyword arguments of self.null_model.fit besides y, time_col and
\* value_col: sample_weight=sample_weight, and no other.
FitNullModelKwargs(fit_params) ==
    {<<"sample_weight", FitSampleWeight(fit_params)>>}
\* self.null_model = DummyEstimator(**params); self.null_model.fit(...)
FitNullModel(params, xval, time_col, value_col, fit_params) ==
    Some(DummyEstimatorFit(DummyEstimatorNew(params), xval, time_col, value_col,
                           FitNullModelKwargs(fit_params)))
\* Variants of the cache reset: the reference to the last X is cleared but
\* the cached result is kept; nothing is cleared.
FitClearsOnlyLastX ==
    [last_predicted_X_ |-> None, cached_predictions_ |-> cached_predictions_]
FitKeepsCache ==
    [last_predicted_X_ |-> last_predicted_X_,
     cached_predictions_ |-> cached_predictions_]
\* Variant of the cache reset: only cached_predictions_ is set to None.
FitClearsOnlyCachedPredictions ==
    [last_predicted_X_ |-> last_predicted_X_, cached_predictions_ |-> None]
\* self.last_predicted_X_ = None; self.cached_predictions_ = None
FitClearedCache == [last_predicted_X_ |-> None, cached_predictions_ |-> None]

\* fit of a concrete subclass: super().fit(...) first, then its own fitting.
Fit(X, time_col, value_col, fit_params) ==
    LET has_null == null_model_params # None
        d        == The(null_model_params)
        params   == FitNullModelParams(dicts[d])
        raises   == has_null /\ ~DummyEstimatorAccepts(params)
        call     == [Call("fit") EXCEPT
                        !.x = Some(X), !.fit_params = fit_params,
                        !.repeat = /\ lastCall.op = "fit"
                                   /\ lastCall.x = Some(X)
                                   /\ lastCall.fit_params = fit_params
                                   /\ time_col_ = Some(time_col)
                                   /\ value_col_ = Some(value_col)]
    IN
    /\ n_fits < MaxFits
    /\ time_col_' = FitTimeCol(time_col)
    /\ value_col_' = FitValueCol(value_col)
    /\ dicts' = IF has_null THEN [dicts EXCEPT ![d] = params] ELSE dicts
    /\ IF raises
       THEN /\ lastCall' = [call EXCEPT !.outcome = "ConfigurationError"]
            /\ UNCHANGED <<null_model, last_predicted_X_, cached_predictions_,
                           model_, n_fits>>
       ELSE /\ null_model' = IF has_null
                             THEN FitNullModel(params, frames[X], time_col,
                                               value_col, fit_params)
                             ELSE null_model
            /\ last_predicted_X_' = FitClearedCache.last_predicted_X_
            /\ cached_predictions_' = FitClearedCache.cached_predictions_
            /\ model_' = SubclassFitModel(frames[X])
            /\ n_fits' = n_fits + 1
            /\ lastCall' = [call EXCEPT !.preamble_ok = TRUE, !.sub_ran = TRUE]
    /\ UNCHANGED <<score_func, coverage, null_model_params, frames, loaded>>

\* ----------------------------------------------------------------- predict
\* X.equals(self.last_predicted_X_): same shape and same values; False when
\* the other is None.
FrameEquals(X, other) == other # None /\ frames[X] = frames[The(other)]
\* Variant of the hit test: by object identity (X is self.last_predicted_X_).
PredictCacheHitByIdentity(X) ==
    cached_predictions_ # None /\ last_predicted_X_ = Some(X)
\* self.cached_predictions_ is not None and X.equals(self.last_predicted_X_)
PredictCacheHit(X) == cached_predictions_ # None /\ FrameEquals(X, last_predicted_X_)
\* Variant of the preamble's comparison: element by element
\* (X == self.last_predicted_X_).all(), which raises when the recorded frame
\* is None or has another shape than X.
PredictPreambleOutcomeElementwise(X) ==
    IF cached_predictions_ = None THEN "miss"
    ELSE IF last_predicted_X_ = None THEN "raise"
    ELSE IF Len(frames[X]) # Len(frames[The(last_predicted_X_)]) THEN "raise"
    ELSE IF frames[X] = frames[The(last_predicted_X_)] THEN "hit"
    ELSE "miss"
\* How the base preamble ends: the condition is a short-circuit "and" of an
\* identity test and DataFrame.equals, neither of which raises, so it ends
\* in the hit branch or in the miss branch.
PredictPreambleOutcome(X) == IF PredictCacheHit(X) THEN "hit" ELSE "miss"
\* What the base preamble returns: the cached result, or None for "no hit".
PredictPreambleReturn(X) == IF PredictCacheHit(X) THEN cached_predictions_ ELSE None
\* Variant of the miss branch: the first recorded frame is kept, a new X is
\* recorded only when none is.
PredictPreambleLastXKeepsFirst(X) ==
    IF last_predicted_X_ # None THEN last_predicted_X_ ELSE Some(X)
\* last_predicted_X_ after the base preamble: a reference to X on a miss.
PredictPreambleLastX(X) == IF PredictCacheHit(X) THEN last_predicted_X_ ELSE Some(X)

\* predict of a concrete subclass: super().predict(X) first; on None it
\* computes fresh predictions and sets cached_predictions_ to them before
\* returning.  sub_ok: whether that computation succeeds.
SubclassPredict(X, sub_ok) ==
    LET cached == PredictPreambleReturn(X)
        fresh  == Some(SubclassCompute(frames[X]))
    IN  IF PredictPreambleOutcome(X) = "raise"
        THEN [preamble_ok |-> FALSE, hit |-> FALSE, sub_ran |-> FALSE,
              outcome |-> "ValueError", ret |-> None,
              last_x |-> last_predicted_X_, cached |-> cached_predictions_]
        ELSE IF cached # None
        THEN [preamble_ok |-> TRUE, hit |-> TRUE, sub_ran |-> FALSE,
              outcome |-> "ok", ret |-> cached,
              last_x |-> PredictPreambleLastX(X), cached |-> cached_predictions_]
        ELSE IF sub_ok
        THEN [preamble_ok |-> TRUE, hit |-> FALSE, sub_ran |-> TRUE,
              outcome |-> "ok", ret |-> fresh,
              last_x |-> PredictPreambleLastX(X), cached |-> fresh]
        ELSE [preamble_ok |-> TRUE, hit |-> FALSE, sub_ran |-> TRUE,
              outcome |-> "SubclassError", ret |-> None,
              last_x |-> PredictPreambleLastX(X), cached |-> cached_predictions_]

\* Whether predict is called on a populated cache whose recorded frame has
\* another shape than X (history kept for the properties).
PredictShapeDiffers(X) ==
    /\ cached_predictions_ # None
    /\ last_predicted_X_ # None
    /\ Len(frames[X]) # Len(frames[The(last_predicted_X_)])

Predict(X, sub_ok) ==
    LET r == SubclassPredict(X, sub_ok)
    IN
    /\ last_predicted_X_' = r.last_x
    /\ cached_predictions_' = r.cached
    /\ lastCall' = [Call("predict") EXCEPT
                        !.repeat = /\ lastCall.op = "predict"
                                   /\ lastCall.outcome = "ok"
                                   /\ frames[The(lastCall.x)] = frames[X],
                        !.switch = /\ lastCall.op = "predict"
                                   /\ lastCall.outcome = "ok"
                                   /\ frames[The(lastCall.x)] # frames[X],
                        !.shape_miss = PredictShapeDiffers(X),
                        !.x = Some(X),
                        !.preamble_ok = r.preamble_ok, !.outcome = r.outcome,
                        !.sub_ran = r.sub_ran, !.hit = r.hit, !.ret_pred = r.ret]
    /\ UNCHANGED <<score_func, coverage, null_model_params, null_model,
                   time_col_, value_col_, model_, n_fits, frames, dicts,
                   loaded>>

\* ----------------------------------------------------------------- summary
\* Variant of summary that resets the prediction cache while it logs.
SummaryClearsCache ==
    /\ lastCall' = Call("summary")
    /\ last_predicted_X_' = None
    /\ cached_predictions_' = None
    /\ UNCHANGED <<score_func, coverage, null_model_params, null_model,
                   time_col_, value_col_, model_, n_fits, frames, dicts,
                   loaded>>
\* log_message(self, LoggingLevelEnum.DEBUG): the estimator is only printed.
Summary ==
    /\ lastCall' = Call("summary")
    /\ UNCHANGED <<score_func, coverage, null_model_params, null_model,
                   time_col_, value_col_, last_predicted_X_,
                   cached_predictions_, model_, n_fits, frames, dicts,
                   loaded>>

\* ------------------------------------------------------------------- score
\* Variant of the scoring branch: the model's and the null model's
\* predictions are passed in each other's place.
ScoreValueSwapped(xval, y, y_pred) ==
    IF null_model # None
    THEN r2_null_model_score(y, DummyEstimatorPredict(The(null_model), xval),
                             y_pred, score_func)
    ELSE PlainScore(ScoreFunc(score_func, y, y_pred))
\* Variant of the scoring branch: score computes the ratio itself,
\* 1 - score_func(y, y_pred) / score_func(y, y_pred_null).
ScoreValueInline(xval, y, y_pred) ==
    IF null_model # None
    THEN LET model_loss == ScoreFunc(score_func, y, y_pred)
             null_loss  == ScoreFunc(score_func, y,
                                     DummyEstimatorPredict(The(null_model), xval))
         IN  IF null_loss = 0 THEN DivisionError
             ELSE OneMinusRatio(model_loss, null_loss)
    ELSE PlainScore(ScoreFunc(score_func, y, y_pred))
\* The branch on self.null_model and the score it returns.
ScoreValue(xval, y, y_pred) ==
    IF null_model # None
    THEN r2_null_model_score(y, y_pred,
                             DummyEstimatorPredict(The(null_model), xval),
                             score_func)
    ELSE PlainScore(ScoreFunc(score_func, y, y_pred))

\* score_func raises on columns of different lengths (a cached result that
\* was computed for a frame of another shape).
ScoreOutcome(y, r) ==
    IF r.outcome # "ok" THEN r.outcome
    ELSE IF Len(The(r.ret).predicted) # Len(y) THEN "ValueError"
    ELSE "ok"

\* Variant of score's first step: the predictions are computed for X
\* directly, without going through predict and its cache.
ScorePredictDirect(X, sub_ok) ==
    [preamble_ok |-> TRUE, hit |-> FALSE, sub_ran |-> TRUE,
     outcome |-> IF sub_ok THEN "ok" ELSE "SubclassError",
     ret |-> IF sub_ok THEN Some(SubclassCompute(frames[X])) ELSE None,
     last_x |-> last_predicted_X_, cached |-> cached_predictions_]
\* y_pred = self.predict(X)[cst.PREDICTED_COL]: the subclass's predict, cache
\* protocol included.
ScorePredict(X, sub_ok) == SubclassPredict(X, sub_ok)

Score(X, y, sub_ok) ==
    LET r == ScorePredict(X, sub_ok)
        value == ScoreValue(frames[X], y, The(r.ret).predicted)
        outcome == IF ScoreOutcome(y, r) # "ok" THEN ScoreOutcome(y, r)
                   ELSE IF value = DivisionError THEN "ZeroDivisionError"
                   ELSE "ok"
    IN
    /\ Len(y) = Len(frames[X])
    /\ last_predicted_X_' = r.last_x
    /\ cached_predictions_' = r.cached
    /\ lastCall' = [Call("score") EXCEPT
                        !.repeat = /\ lastCall.op \in {"predict", "score"}
                                   /\ lastCall.outcome = "ok"
                                   /\ frames[The(lastCall.x)] = frames[X],
                        !.x = Some(X), !.y = Some(y),
                        !.preamble_ok = r.preamble_ok, !.outcome = outcome,
                        !.sub_ran = r.sub_ran, !.hit = r.hit, !.ret_pred = r.ret,
                        !.ret_score = IF outcome = "ok" THEN value ELSE NoScore]
    /\ UNCHANGED <<score_func, coverage, null_model_params, null_model,
                   time_col_, value_col_, model_, n_fits, frames, dicts,
                   loaded>>

\* ------------------------------------------------------------- environment
\* External tooling (parameter search) sets null_model_params on the
\* estimator between calls: to None, or to the caller's mapping.
SetParams(p) ==
    /\ p # null_model_params
    /\ null_model_params' = p
    /\ lastCall' = Call("set_params")
    /\ UNCHANGED <<score_func, coverage, null_model, time_col_, value_col_,
                   last_predicted_X_, cached_predictions_, model_, n_fits,
                   frames, dicts, loaded>>

\* The caller changes the values of one of its frames in place.
MutateFrame(X, xval) ==
    /\ frames[X] # xval
    /\ frames' = [frames EXCEPT ![X] = xval]
    /\ lastCall' = Call("mutate")
    /\ UNCHANGED <<score_func, coverage, null_model_params, null_model,
                   time_col_, value_col_, last_predicted_X_,
                   cached_predictions_, model_, n_fits, dicts, loaded>>

FitCall ==
    \E X \in FrameIds, time_col \in TimeCols, value_col \in ValueCols,
       fit_params \in FitParamChoices :
         Fit(X, time_col, value_col, fit_params)
PredictCall == \E X \in FrameIds, sub_ok \in BOOLEAN : Predict(X, sub_ok)
ScoreCall ==
    \E X \in FrameIds, sub_ok \in BOOLEAN :
       \E y \in YValues(Len(frames[X])) : Score(X, y, sub_ok)
SetParamsCall == \E p \in {None} \cup {Some(d) : d \in DictIds} : SetParams(p)
MutateFrameCall ==
    \E X \in MutableFrameIds, xval \in FrameValues : MutateFrame(X, xval)

Next ==
    \/ FitCall
    \/ PredictCall
    \/ ScoreCall
    \/ Summary
    \/ SetParamsCall
    \/ MutateFrameCall

Spec == Init /\ [][Next]_vars

\* ------------------------------------------------- the DataLoader, on its own
LoadData(data_name, kwargs) ==
    /\ \E r \in load_data(data_name, kwargs) :
          loaded' = [data_name |-> Some(data_name), kwargs |-> kwargs,
                     outcome |-> r.outcome, frame |-> r.frame]
    /\ UNCHANGED <<score_func, coverage, null_model_params, null_model,
                   time_col_, value_col_, last_predicted_X_,
                   cached_predictions_, model_, n_fits, frames, dicts,
                   lastCall>>
LoadDataCall ==
    \E data_name \in DataNames, kwargs \in LoaderKwargChoices :
       LoadData(data_name, kwargs)
LoaderNext == LoadDataCall
LoaderSpec == Init /\ [][LoaderNext]_vars

\* ======================================================================
\* Properties
\* ======================================================================

\* C1: whenever the base fit preamble has returned normally, whatever the
\* state before the call and whether or not null_model_params is set, both
\* cache fields last_predicted_X_ and cached_predictions_ are None.
C1_FitClearsCache ==
    (lastCall.op = "fit" /\ lastCall.preamble_ok)
        => (last_predicted_X_ = None /\ cached_predictions_ = None)
\* A fit with a null model configured, called on a populated cache.
C1_Witness ==
    /\ lastCall.op = "fit"
    /\ lastCall.preamble_ok
    /\ lastCall.pre_cached
    /\ null_model_params # None
    /\ cached_predictions_ = None

\* C2: a result that predict returns as a cache hit was computed and stored
\* after the most recent completed fit (its epoch is the number of fits
\* completed), and a predict that directly follows a fit whose preamble
\* returned gets the no-hit sentinel and runs the subclass computation.
C2_HitIsFromCurrentFit ==
    /\ [](lastCall.op \in {"predict", "score"} /\ lastCall.hit
            => /\ lastCall.ret_pred # None
               /\ The(lastCall.ret_pred).epoch = n_fits)
    /\ [][(lastCall.op = "fit" /\ lastCall.preamble_ok /\ PredictCall)
            => (~lastCall'.hit /\ lastCall'.sub_ran)]_vars
\* A cache hit after the estimator was fit a second time.
C2_Witness ==
    /\ lastCall.op = "predict"
    /\ lastCall.hit
    /\ n_fits >= 2
    /\ The(lastCall.ret_pred).epoch = n_fits

\* C3: a predict(X1) that directly follows a predict(X1) that returned (no
\* fit, no other event in between; X1 the same values) returns the identical
\* result, as a cache hit, and the subclass computation is not run.
C3_RepeatedPredictHits ==
    [][(/\ lastCall.op = "predict"
        /\ lastCall.outcome = "ok"
        /\ \E X \in FrameIds, sub_ok \in BOOLEAN :
              /\ Predict(X, sub_ok)
              /\ frames[X] = frames[The(lastCall.x)])
        => (/\ lastCall'.outcome = "ok"
            /\ lastCall'.hit
            /\ ~lastCall'.sub_ran
            /\ lastCall'.ret_pred = lastCall.ret_pred
            /\ lastCall'.ret_pred = cached_predictions_)]_vars
\* The second of two consecutive predicts on equal values, passed as another
\* frame object than the first.
C3_Witness ==
    /\ lastCall.op = "predict"
    /\ lastCall.repeat
    /\ lastCall.hit
    /\ last_predicted_X_ # None
    /\ lastCall.x # last_predicted_X_

\* C4: with a populated cache, predict reports a hit if and only if the
\* values of the new X equal the values of the X that produced the cached
\* result (whatever object carries them).
C4_HitIffValueEqual ==
    [][\A X \in FrameIds, sub_ok \in BOOLEAN :
          (cached_predictions_ # None /\ Predict(X, sub_ok))
            => (lastCall'.hit <=> frames[X] = The(cached_predictions_).x)]_vars

\* C5: fit, predict, score and summary leave score_func, coverage and
\* null_model_params as they were, the contents of the caller's
\* null_model_params mapping included.
C5_ConfigUnchangedByCalls ==
    [][(FitCall \/ PredictCall \/ ScoreCall \/ Summary)
         => /\ score_func' = score_func
            /\ coverage' = coverage
            /\ null_model_params' = null_model_params
            /\ dicts' = dicts]_vars

\* C6: whenever null_model_params is None, score(X, y) returns exactly
\* score_func(y, predicted column of predict(X)).
C6_PlainScoreWhenParamsNone ==
    (lastCall.op = "score" /\ lastCall.outcome = "ok" /\ null_model_params = None)
        => lastCall.ret_score =
             PlainScore(ScoreFunc(score_func, The(lastCall.y),
                                  The(lastCall.ret_pred).predicted))

\* C7: after every fit call that completes, null_model is not None if and
\* only if null_model_params was not None at that fit.
C7_NullModelReflectsParams ==
    (lastCall.op = "fit" /\ lastCall.outcome = "ok")
        => (null_model # None <=> null_model_params # None)

\* C8: when a null model exists, score(X, y) takes the model's predictions
\* from predict(X) and the null model's predictions on the same X, and
\* returns one minus the ratio of score_func(y, model predictions) to
\* score_func(y, null predictions) (for a null loss other than zero).
C8_RelativeSkillScore ==
    (lastCall.op = "score" /\ lastCall.outcome = "ok" /\ null_model # None)
        => LET y          == The(lastCall.y)
               xval       == frames[The(lastCall.x)]
               model_loss == ScoreFunc(score_func, y,
                                       The(lastCall.ret_pred).predicted)
               null_pred  == [i \in 1..Len(xval) |->
                                DummyEstimatorPredict(The(null_model), xval)[i]]
               null_loss  == ScoreFunc(score_func, y, null_pred)
           IN  /\ lastCall.ret_pred = cached_predictions_
               /\ null_loss # 0
                    => /\ lastCall.ret_score.kind = "r2"
                       /\ lastCall.ret_score.den = null_loss
                       /\ lastCall.ret_score.num = null_loss - model_loss
\* A relative skill score where the model and the null model differ in loss.
C8_Witness ==
    /\ lastCall.op = "score"
    /\ lastCall.outcome = "ok"
    /\ null_model # None
    /\ lastCall.ret_score.kind = "r2"
    /\ lastCall.ret_score.num \notin {0, lastCall.ret_score.den}

C10_UnfitFieldsAreNone ==
    n_fits = 0 => (time_col_ = None /\ value_col_ = None /\ null_model = None)

\* C11: the cache-equality check in the predict preamble never raises: when
\* no X has been recorded yet, or the recorded X has another shape than the
\* new X, the preamble ends in a miss (no hit reported, the new X recorded in
\* last_predicted_X_), not in an error.
C11_CompareNeverRaises ==
    [][\A X \in FrameIds, sub_ok \in BOOLEAN :
          (/\ \/ last_predicted_X_ = None
              \/ Len(frames[X]) # Len(frames[The(last_predicted_X_)])
           /\ Predict(X, sub_ok))
            => (/\ lastCall'.preamble_ok
                /\ lastCall'.outcome # "ValueError"
                /\ ~lastCall'.hit
                /\ last_predicted_X_' = Some(X))]_vars
\* A predict on a populated cache whose recorded frame had another shape:
\* a miss that recorded the new frame.
C11_Witness ==
    /\ lastCall.op = "predict"
    /\ lastCall.shape_miss
    /\ lastCall.preamble_ok
    /\ ~lastCall.hit
    /\ last_predicted_X_ = lastCall.x

\* C12: a fit that directly follows a fit with the same X, time_col,
\* value_col and fit_params leaves time_col_, value_col_, the null model,
\* null_model_params and the contents of its mapping as the first fit left
\* them, ends as the first ended, and when the preamble returns the cache is
\* empty after the first call and after the second.
C12_FitTwiceSameState ==
    [][\A X \in FrameIds, time_col \in TimeCols, value_col \in ValueCols,
          fit_params \in FitParamChoices :
          (/\ lastCall.op = "fit"
           /\ lastCall.x = Some(X)
           /\ lastCall.fit_params = fit_params
           /\ time_col_ = Some(time_col)
           /\ value_col_ = Some(value_col)
           /\ Fit(X, time_col, value_col, fit_params))
            => (/\ time_col_' = time_col_
                /\ value_col_' = value_col_
                /\ null_model' = null_model
                /\ null_model_params' = null_model_params
                /\ dicts' = dicts
                /\ model_' = model_
                /\ lastCall'.outcome = lastCall.outcome
                /\ lastCall'.preamble_ok = lastCall.preamble_ok
                /\ lastCall.preamble_ok
                     => /\ last_predicted_X_ = None
                        /\ cached_predictions_ = None
                        /\ last_predicted_X_' = None
                        /\ cached_predictions_' = None)]_vars
\* The second of two consecutive fits with the same arguments, with a null
\* model configured and score_func left in the mapping by the first.
C12_Witness ==
    /\ lastCall.op = "fit"
    /\ lastCall.repeat
    /\ lastCall.preamble_ok
    /\ n_fits = 2
    /\ null_model # None
    /\ null_model_params # None
    /\ <<"score_func", score_func>> \in dicts[The(null_model_params)]
    /\ cached_predictions_ = None

\* C13: summary() changes no field of the estimator: the parameters
\* (score_func, coverage, null_model_params and its mapping's contents), the
\* fitted state (null_model, time_col_, value_col_, the subclass's model) and
\* the cache (last_predicted_X_, cached_predictions_) are the same after the
\* call as before it.
C13_SummaryChangesNothing ==
    [][Summary
        => /\ score_func' = score_func
           /\ coverage' = coverage
           /\ null_model_params' = null_model_params
           /\ dicts' = dicts
           /\ null_model' = null_model
           /\ time_col_' = time_col_
           /\ value_col_' = value_col_
           /\ model_' = model_
           /\ last_predicted_X_' = last_predicted_X_
           /\ cached_predictions_' = cached_predictions_]_vars
\* A summary() on a fitted estimator with a null model and a populated cache.
C13_Witness ==
    /\ lastCall.op = "summary"
    /\ null_model # None
    /\ time_col_ # None
    /\ last_predicted_X_ # None
    /\ cached_predictions_ # None

C16_CacheIsForRecordedX ==
    (/\ lastCall.op \in {"predict", "score"}
     /\ lastCall.outcome = "SubclassError"
     /\ cached_predictions_ # None)
        => (/\ last_predicted_X_ # None
            /\ The(cached_predictions_).x = frames[The(last_predicted_X_)]
            /\ The(cached_predictions_).epoch = n_fits)

\* C17: a cache hit requires that the values X has now equal the values the
\* cached predictions were computed from: when the caller has changed in
\* place the frame object it passed to an earlier predict and passes that
\* object again, the preamble does not report a hit.
C17_NoHitAfterInPlaceChange ==
    [][\A X \in FrameIds, sub_ok \in BOOLEAN :
          (/\ lastCall.op = "mutate"
           /\ last_predicted_X_ = Some(X)
           /\ cached_predictions_ # None
           /\ frames[X] # The(cached_predictions_).x
           /\ Predict(X, sub_ok))
            => ~lastCall'.hit]_vars

\* C18: the cache holds one entry.  A predict(X) that directly follows a
\* predict that returned for other values (no fit in between), with a
\* subclass that honours the contract and computes, is a miss: the subclass
\* computation runs, and after it the cache holds X and the predictions for
\* X, which are what is returned.  So in predict(X1), predict(X2),
\* predict(X1) the second and the third call both miss and refresh.
C18_OneEntryCache ==
    [][\A X \in FrameIds :
          (/\ lastCall.op = "predict"
           /\ lastCall.outcome = "ok"
           /\ frames[X] # frames[The(lastCall.x)]
           /\ Predict(X, TRUE))
            => (/\ ~lastCall'.hit
                /\ lastCall'.sub_ran
                /\ lastCall'.outcome = "ok"
                /\ last_predicted_X_' = Some(X)
                /\ cached_predictions_' # None
                /\ The(cached_predictions_').x = frames[X]
                /\ The(cached_predictions_').epoch = n_fits
                /\ lastCall'.ret_pred = cached_predictions_')]_vars
\* A predict that directly followed a returned predict for other values: it
\* missed, and the cache holds its X and its result.
C18_Witness ==
    /\ lastCall.op = "predict"
    /\ lastCall.switch
    /\ ~lastCall.hit
    /\ lastCall.sub_ran
    /\ last_predicted_X_ = lastCall.x
    /\ cached_predictions_ # None
    /\ The(cached_predictions_).x = frames[The(lastCall.x)]
    /\ lastCall.ret_pred = cached_predictions_

\* C19: score obtains its predictions through predict, cache included.  A
\* score(X, y) that directly follows a predict or score call that returned
\* for equal values of X (no fit in between) is a cache hit: it uses the
\* result that call returned and runs no subclass computation.  And a score
\* that misses, with a subclass that honours the contract and computes,
\* leaves the cache holding X and the predictions for X.
C19_ScoreUsesCache ==
    [][\A X \in FrameIds : \A y \in YValues(Len(frames[X])) :
            /\ \A sub_ok \in BOOLEAN :
                 (/\ lastCall.op \in {"predict", "score"}
                  /\ lastCall.outcome = "ok"
                  /\ frames[X] = frames[The(lastCall.x)]
                  /\ lastCall'.x = Some(X)
                  /\ lastCall'.y = Some(y)
                  /\ Score(X, y, sub_ok))
                   => (/\ lastCall'.hit
                       /\ ~lastCall'.sub_ran
                       /\ lastCall'.ret_pred = lastCall.ret_pred
                       /\ cached_predictions_' = cached_predictions_)
            /\ (/\ ~lastCall'.hit
                /\ lastCall'.x = Some(X)
                /\ lastCall'.y = Some(y)
                /\ Score(X, y, TRUE))
                 => (/\ lastCall'.sub_ran
                     /\ last_predicted_X_' = Some(X)
                     /\ cached_predictions_' # None
                     /\ The(cached_predictions_').x = frames[X]
                     /\ The(cached_predictions_').epoch = n_fits
                     /\ lastCall'.ret_pred = cached_predictions_')]_vars
\* A score that directly followed a returned predict on equal values, passed
\* as another frame object: a hit, scored on the cached result.
C19_Witness ==
    /\ lastCall.op = "score"
    /\ lastCall.repeat
    /\ lastCall.hit
    /\ ~lastCall.sub_ran
    /\ lastCall.outcome = "ok"
    /\ lastCall.ret_pred = cached_predictions_
    /\ lastCall.x # last_predicted_X_

\* C20: with null_model_params set, a fit whose preamble returns has fit the
\* null model on the same X, time_col and value_col, and of the caller's
\* fit_params has passed it sample_weight only: the value the caller gave,
\* None when the caller gave none, and no other key.
C20_NullModelFitArguments ==
    [][\A X \in FrameIds, time_col \in TimeCols, value_col \in ValueCols,
          fit_params \in FitParamChoices :
          (/\ null_model_params # None
           /\ Fit(X, time_col, value_col, fit_params)
           /\ lastCall'.preamble_ok)
            => (/\ null_model' # None
                /\ The(null_model').X = Some(frames[X])
                /\ The(null_model').time_col = Some(time_col)
                /\ The(null_model').value_col = Some(value_col)
                /\ \A p \in The(null_model').fit_kwargs : p[1] = "sample_weight"
                /\ <<"sample_weight",
                      IF \E q \in fit_params : q[1] = "sample_weight"
                      THEN {q[2] : q \in {r \in fit_params : r[1] = "sample_weight"}}
                      ELSE None>> \in The(null_model').fit_kwargs)]_vars
\* A fit with a null model configured and called with sample_weight and one
\* more keyword argument: the null model was passed sample_weight alone.
C20_Witness ==
    /\ lastCall.op = "fit"
    /\ lastCall.preamble_ok
    /\ null_model_params # None
    /\ null_model # None
    /\ "verbose" \in Keys(lastCall.fit_params)
    /\ The(null_model).X = Some(frames[The(lastCall.x)])
    /\ The(null_model).fit_kwargs = {<<"sample_weight", Some("w1")>>}

====
